---- MODULE Spec2Model ----
(***************************************************************************)
(* RO-Crate manifest generation of future_land_use_RO.ipynb:               *)
(* create_and_write_ro_crate_metadata(directory, omit_names) walks a       *)
(* directory, creates one entity per walked entry, links the entities and  *)
(* writes ro-crate-metadata.json into the current working directory.       *)
(*                                                                         *)
(* Strings the code inspects (paths, names, suffixes) are sequences of     *)
(* one-character strings, so that endswith, splitext, basename, join and   *)
(* relpath are computed as the code computes them.                         *)
(***************************************************************************)
EXTENDS Integers, Sequences, FiniteSets, TLC

\* ------------------------------------------------------------------ bounds
\* Largest number of filesystem objects below the walked directory.
MaxEntries == 4
\* Largest number of consecutive builds (calls of the function) in one run.
MaxBuilds == 2

\* ----------------------------------------------------------- string values
RESOURCE_SUFFIX == <<".", "r", "e", "s", "o", "u", "r", "c", "e", ".", "y", "a", "m", "l">>
GIT_SUFFIX == <<".", "g", "i", "t">>
CHECKPOINTS_SUFFIX ==
  <<".", "i", "p", "y", "n", "b", "_", "c", "h", "e", "c", "k", "p", "o", "i", "n", "t", "s">>
OUTPUT_NAME ==
  <<"r", "o", "-", "c", "r", "a", "t", "e", "-", "m", "e", "t", "a", "d", "a", "t", "a",
    ".", "j", "s", "o", "n">>
ROOT_ID == <<".", "/">>
CURDIR == <<".">>
SEP == "/"
CONTEXT_URI == "https://w3id.org/ro/crate/1.1/context"

\* Names of the filesystem objects the trees are built from.
N_a_csv == <<"a", ".", "c", "s", "v">>
N_a_resource == <<"a">> \o RESOURCE_SUFFIX
N_a_resource_resource == <<"a", ".", "r", "e", "s", "o", "u", "r", "c", "e">> \o RESOURCE_SUFFIX
N_b == <<"b">>
N_x_txt == <<"x", ".", "t", "x", "t">>
N_tmp == <<"t", "m", "p">>
N_tmp2 == <<"t", "m", "p", "2">>
N_git == GIT_SUFFIX
N_config == <<"c", "o", "n", "f", "i", "g">>
N_x_git == <<"x">> \o GIT_SUFFIX
N_x_resource == <<"x">> \o RESOURCE_SUFFIX

\* The walked directory (the argument `directory`), an absolute path.
DIRECTORY == <<"/", "w">>

\* ------------------------------------------------------- os.path functions
\* str.endswith
EndsWith(s, suf) ==
  /\ Len(s) >= Len(suf)
  /\ SubSeq(s, Len(s) - Len(suf) + 1, Len(s)) = suf

\* str.startswith
StartsWith(s, pre) ==
  /\ Len(s) >= Len(pre)
  /\ SubSeq(s, 1, Len(pre)) = pre

Max(S) == CHOOSE m \in S : \A k \in S : k <= m

\* str.rfind, 1-based, 0 when the character does not occur
RFind(s, c) == Max({0} \cup {k \in 1..Len(s) : s[k] = c})

\* os.path.join(root, name) for a relative name and a root without a trailing separator
Join(root, name) == root \o <<SEP>> \o name

\* os.path.basename
Basename(p) == SubSeq(p, RFind(p, SEP) + 1, Len(p))

\* os.path.splitext(p)[0]: the extension starts at the last dot of the last
\* component, unless that component has only dots before it
SplitextRoot(p) ==
  LET sepIndex == RFind(p, SEP)
      dotIndex == RFind(p, ".")
  IN  IF /\ dotIndex > sepIndex
         /\ \E k \in (sepIndex + 1)..(dotIndex - 1) : p[k] # "."
      THEN SubSeq(p, 1, dotIndex - 1)
      ELSE p

\* os.path.relpath(path, start) for a path equal to start or below it
Relpath(path, start) ==
  IF path = start
  THEN CURDIR
  ELSE SubSeq(path, Len(start) + 2, Len(path))

\* ------------------------------------------------------------ file system
\* The filesystem objects a tree below DIRECTORY is drawn from, in the order
\* the operating system lists them (os.scandir order, which is not sorted).
\* parent = 0 is DIRECTORY itself; a parent precedes its children.
Universe ==
  << [name |-> N_x_git,        parent |-> 0,  type |-> "File"],
     [name |-> N_b,            parent |-> 0,  type |-> "Directory"],
     [name |-> N_a_csv,        parent |-> 0,  type |-> "File"],
     [name |-> N_a_resource,   parent |-> 0,  type |-> "File"],
     [name |-> N_tmp,          parent |-> 2,  type |-> "File"],
     [name |-> N_x_txt,        parent |-> 2,  type |-> "File"],
     [name |-> N_tmp2,         parent |-> 0,  type |-> "Directory"],
     [name |-> N_x_txt,        parent |-> 7,  type |-> "File"],
     [name |-> N_tmp,          parent |-> 0,  type |-> "Directory"],
     [name |-> N_x_txt,        parent |-> 9,  type |-> "File"],
     [name |-> N_git,          parent |-> 0,  type |-> "Directory"],
     [name |-> N_config,       parent |-> 11, type |-> "File"],
     [name |-> CHECKPOINTS_SUFFIX, parent |-> 0, type |-> "Directory"],
     [name |-> N_a_resource_resource, parent |-> 0, type |-> "File"],
     [name |-> N_x_resource,   parent |-> 2,  type |-> "Directory"],
     [name |-> OUTPUT_NAME,    parent |-> 0,  type |-> "File"] >>

Nodes == 1..Len(Universe)
\* The node of the output file when the working directory is DIRECTORY.
OutNode == Len(Universe)
InputNodes == Nodes \ {OutNode}

RECURSIVE AbsPath(_)
\* Absolute path of a node, as os.walk builds it with os.path.join.
AbsPath(n) ==
  IF n = 0
  THEN DIRECTORY
  ELSE Join(AbsPath(Universe[n].parent), Universe[n].name)

\* Path of a node relative to DIRECTORY.
RelOf(n) == Relpath(AbsPath(n), DIRECTORY)

\* A set of nodes is a tree when every node's parent directory is in it.
IsTree(T) == \A n \in T : Universe[n].parent = 0 \/ Universe[n].parent \in T

\* The descriptor of a descriptor is tried only next to that descriptor.
HasDescribed(T) ==
  /\ \A n \in T : Universe[n].name = N_a_resource_resource =>
                    \E m \in T : Universe[m].name = N_a_resource
  /\ \A n \in T : Universe[n].name = N_x_resource =>
                    \E m \in T : /\ Universe[m].name = N_x_txt
                                 /\ Universe[m].parent = Universe[n].parent

Trees ==
  {T \in SUBSET InputNodes : IsTree(T) /\ HasDescribed(T) /\ Cardinality(T) <= MaxEntries}

\* What the directory argument can name.
DirKinds == {"dir", "file", "missing"}

\* Kinds of document a sidecar .resource.yaml file can hold.
DocKinds == {"desc", "nodesc", "null", "invalid"}
DESCRIPTION_TEXT == "Attribute table"

\* The documents worth telling apart for a tree: they differ only where a
\* data file has a sidecar path to look up.
DocKindsFor(T) ==
  IF \E n \in T : Universe[n].type = "File" /\ Universe[n].name = N_a_csv
  THEN DocKinds
  ELSE {"desc"}

\* The sets of unreadable files tried for a tree: none, or the file b/x.txt.
UnreadableChoices(T) ==
  {{}} \cup {{n} : n \in {k \in T : RelOf(k) = Join(N_b, N_x_txt)}}

\* Values of the omit_names argument; None is the default of the signature.
None == [given |-> FALSE, names |-> <<>>]
List(names) == [given |-> TRUE, names |-> names]
OmitChoices == {None, List(<<>>), List(<<N_tmp>>), List(<<N_a_resource>>)}

\* Relative paths that may exist in the working directory when it is not
\* DIRECTORY.
OtherCwdFiles == {N_a_resource}

\* The working directories tried for a tree: DIRECTORY itself, or another
\* directory that holds some of OtherCwdFiles.
CwdFilesFor(T, isDir) ==
  IF isDir
  THEN {{}}
  ELSE IF \E n \in T : Universe[n].type = "File" /\ Universe[n].name = N_a_csv
       THEN SUBSET OtherCwdFiles
       ELSE {OtherCwdFiles}

VARIABLES
  tree,            \* nodes present below DIRECTORY (not counting the output file)
  omit_arg,        \* the omit_names argument of the call
  cwdIsDir,        \* the process's working directory is DIRECTORY
  yamlDoc,         \* kind of document held by the .resource.yaml files
  unreadable,      \* files below DIRECTORY whose bytes cannot be read
  dirKind,         \* what lies at the path DIRECTORY: a directory, a file, nothing
  dupScan,         \* the listing of DIRECTORY yields its first name twice
  cwdFiles,        \* relative paths in the working directory when it is not DIRECTORY
  nb,              \* the notebook run: cell reached, files of output_data, their records
  pc,              \* position of the build
  omit_names,      \* local omit_names after the default is applied
  metadata,        \* metadata["@graph"]: the sequence of entities
  contents,        \* result of list_directory_contents
  path_to_entity,  \* path -> index of the entity in metadata (the shared dict object)
  dest,            \* ro-crate-metadata.json in the working directory
  dest0,           \* that file as it was when the current build began
  err,             \* exception that ended the build, "none" otherwise
  now,             \* clock read by datetime.now()
  builds,          \* number of builds begun
  snap,            \* tree as it was when the current build began
  prev             \* manifest and tree of the last build completed before this one

\* The arguments of the call and the parts of the environment no build changes.
env == << tree, omit_arg, cwdIsDir, unreadable, dirKind, dupScan, cwdFiles, nb >>

vars ==
  << env, yamlDoc, pc, omit_names, metadata, contents, path_to_entity, dest,
     dest0, err, now, builds, snap, prev >>

\* The output file: absent, or present with a complete document or a
\* truncated one.
Absent == [state |-> "absent"]
Truncated == [state |-> "truncated"]
Complete(doc) == [state |-> "complete", doc |-> doc]

TreeNow_inDirectory ==
  tree \cup (IF dest.state # "absent" THEN {OutNode} ELSE {})

\* Nodes present below DIRECTORY right now, the output file included when it
\* is written there.
TreeNow ==
  tree \cup (IF cwdIsDir /\ dest.state # "absent" THEN {OutNode} ELSE {})

Content_fresh(n) ==
  IF n = OutNode
  THEN <<"json", Truncated>>
  ELSE IF EndsWith(Universe[n].name, RESOURCE_SUFFIX)
       THEN <<"yaml", yamlDoc>>
       ELSE <<"data", n>>

\* Bytes of a file.
Content(n) ==
  IF n = OutNode
  THEN <<"json", dest>>
  ELSE IF EndsWith(Universe[n].name, RESOURCE_SUFFIX)
       THEN <<"yaml", yamlDoc>>
       ELSE <<"data", n>>

\* morpc.md5(path): digest of the bytes of the file at an absolute path.
Md5(path) ==
  LET n == CHOOSE k \in TreeNow : AbsPath(k) = path
  IN  <<"md5", Content(n)>>

\* os.scandir order of the children of a directory node.
RECURSIVE Scandir(_, _)
Scandir(d, k) ==
  IF k > Len(Universe)
  THEN <<>>
  ELSE (IF k \in TreeNow /\ Universe[k].parent = d THEN <<k>> ELSE <<>>)
         \o Scandir(d, k + 1)

\* What os.walk gets from listing a directory: each name once, unless the
\* directory changes under the listing and a name comes back a second time.
Listing(d) ==
  LET names == Scandir(d, 1)
  IN  IF dupScan /\ d = 0 /\ names # <<>>
      THEN Append(names, Head(names))
      ELSE names

\* ------------------------------------------------------------ the walk
should_omit_prefix(name) ==
  \/ \E ext \in {GIT_SUFFIX, CHECKPOINTS_SUFFIX} : EndsWith(name, ext)
  \/ \E i \in 1..Len(omit_names) : StartsWith(name, omit_names[i])

should_omit_exact(name) ==
  \/ name \in {GIT_SUFFIX, CHECKPOINTS_SUFFIX}
  \/ \E i \in 1..Len(omit_names) : omit_names[i] = name

\* should_omit(name): a reserved suffix, or an element of the omit_names list
should_omit(name) ==
  \/ \E ext \in {GIT_SUFFIX, CHECKPOINTS_SUFFIX} : EndsWith(name, ext)
  \/ \E i \in 1..Len(omit_names) : omit_names[i] = name

\* One record of contents.
Item(type, path, root) == [type |-> type, path |-> path, root |-> root]

\* The records appended for the names of one os.walk triple (root, names).
ItemsOf(d, names) ==
  [i \in 1..Len(names) |->
     Item(Universe[names[i]].type,
          Relpath(Join(AbsPath(d), Universe[names[i]].name), DIRECTORY),
          AbsPath(d))]

RECURSIVE os_walk(_), os_walk_dirs(_)
os_walk_bottomup(d) ==
  LET entries == Listing(d)
      KeepDir(n) == Universe[n].type = "Directory" /\ ~should_omit(Universe[n].name)
      KeepFile(n) == Universe[n].type = "File" /\ ~should_omit(Universe[n].name)
      dirs == SelectSeq(entries, KeepDir)
      files == SelectSeq(entries, KeepFile)
  IN  os_walk_dirs(dirs) \o ItemsOf(d, files) \o ItemsOf(d, dirs)

os_walk_unpruned(d) ==
  LET entries == Listing(d)
      IsDir(n) == Universe[n].type = "Directory"
      KeepDir(n) == Universe[n].type = "Directory" /\ ~should_omit(Universe[n].name)
      KeepFile(n) == Universe[n].type = "File" /\ ~should_omit(Universe[n].name)
      dirs == SelectSeq(entries, KeepDir)
      files == SelectSeq(entries, KeepFile)
  IN  ItemsOf(d, files) \o ItemsOf(d, dirs) \o os_walk_dirs(SelectSeq(entries, IsDir))

\* The body of the loop over os.walk, top-down from directory node d: the
\* pruned dirs, the files that are not omitted, then the directories, then
\* the same for each directory left in dirs, in order.
os_walk(d) ==
  LET entries == Listing(d)
      KeepDir(n) == Universe[n].type = "Directory" /\ ~should_omit(Universe[n].name)
      KeepFile(n) == Universe[n].type = "File" /\ ~should_omit(Universe[n].name)
      dirs == SelectSeq(entries, KeepDir)
      files == SelectSeq(entries, KeepFile)
  IN  ItemsOf(d, files) \o ItemsOf(d, dirs) \o os_walk_dirs(dirs)

os_walk_dirs(dirs) ==
  IF dirs = <<>>
  THEN <<>>
  ELSE os_walk(Head(dirs)) \o os_walk_dirs(Tail(dirs))

\* list_directory_contents(directory): os.walk ignores the error of listing a
\* top that is missing or not a directory and yields nothing
list_directory_contents == IF dirKind = "dir" THEN os_walk(0) ELSE <<>>

\* ------------------------------------------------- descriptor resolution
\* os.path.exists(p) for a relative path p: resolved against the working
\* directory of the process.
os_path_exists(p) ==
  IF cwdIsDir
  THEN \E n \in TreeNow : RelOf(n) = p
  ELSE p \in cwdFiles

\* What open + yaml.safe_load find at a relative path that exists.
DocAt(p) ==
  IF cwdIsDir
  THEN LET n == CHOOSE k \in TreeNow : RelOf(k) = p
       IN  IF Universe[n].type = "Directory" THEN "isdir" ELSE yamlDoc
  ELSE yamlDoc

Return(v) == [ok |-> TRUE, val |-> v]
Raise(e) == [ok |-> FALSE, err |-> e]

get_description_swallow(resource_file) ==
  IF os_path_exists(resource_file) /\ DocAt(resource_file) = "desc"
  THEN Return(DESCRIPTION_TEXT)
  ELSE Return("")

\* get_description_from_resource_file(resource_file)
get_description_from_resource_file(resource_file) ==
  IF os_path_exists(resource_file)
  THEN LET k == DocAt(resource_file)
       IN  CASE k = "isdir"   -> Raise("IsADirectoryError")
             [] k = "invalid" -> Raise("YAMLError")
             [] k = "null"    -> Raise("AttributeError")
             [] k = "desc"    -> Return(DESCRIPTION_TEXT)
             [] k = "nodesc"  -> Return("")
  ELSE Return("")

\* ---------------------------------------------------------------- entities
\* dict[key] = value
Put(entity, key, value) == (key :> value) @@ entity

Ref_basename(id) == ("@id" :> Basename(id))

\* {"@id": id}
Ref(id) == ("@id" :> id)

RootEntity_stamped(t) ==
  ("@id" :> ROOT_ID) @@ ("@type" :> "Dataset") @@ ("name" :> Append(Basename(DIRECTORY), t))
    @@ ("dateCreated" :> t) @@ ("hasPart" :> <<>>)

\* The root dataset appended to @graph.
RootEntity(t) ==
  ("@id" :> ROOT_ID) @@ ("@type" :> "Dataset") @@ ("name" :> Basename(DIRECTORY))
    @@ ("dateCreated" :> t) @@ ("hasPart" :> <<>>)

IsDataFile_any(item) == item.type = "File"
IsDataFile_untyped(item) == ~EndsWith(item.path, RESOURCE_SUFFIX)

\* Whether pass 1 looks for a description and computes a checksum.
IsDataFile(item) == item.type = "File" /\ ~EndsWith(item.path, RESOURCE_SUFFIX)

\* f"{base_name}.resource.yaml"
ResourceFileOf(path) == SplitextRoot(path) \o RESOURCE_SUFFIX

ChecksumOf(item) ==
  << [checksumAlgorithm |-> "MD5", checksumValue |-> Md5(Join(DIRECTORY, item.path))] >>

EntityId_basename(item) == Basename(item.path)

\* "@id": item["path"]
EntityId(item) == item.path

\* Whether morpc.md5 can open and read the file of an item.
CanRead(item) ==
  \A n \in unreadable : AbsPath(n) # Join(DIRECTORY, item.path)

NewEntity_linked(item) ==
  LET entity == ("@id" :> EntityId(item)) @@ ("@type" :> item.type)
                  @@ ("name" :> Basename(item.path))
      resource_file == ResourceFileOf(item.path)
  IN  IF IsDataFile(item) /\ os_path_exists(resource_file)
      THEN Return(Put(Put(entity, "isDescribedBy", Ref(resource_file)),
                      "contentChecksum", ChecksumOf(item)))
      ELSE Return(entity)

\* The entity pass 1 creates for one item, or the exception it raises: the
\* description is looked up first, the checksum is computed after it.
NewEntity(item) ==
  LET entity == ("@id" :> EntityId(item)) @@ ("@type" :> item.type)
                  @@ ("name" :> Basename(item.path))
      resource_file == ResourceFileOf(item.path)
      description == get_description_from_resource_file(resource_file)
      described ==
        IF os_path_exists(resource_file)
        THEN IF description.ok
             THEN Return(Put(entity, "description", description.val))
             ELSE description
        ELSE Return(entity)
  IN  IF IsDataFile(item)
      THEN IF ~described.ok
           THEN described
           ELSE IF CanRead(item)
                THEN Return(Put(described.val, "contentChecksum", ChecksumOf(item)))
                ELSE Raise("IOError")
      ELSE Return(entity)

\* path_to_entity[path] = entity, the entity being the one at graph[idx]
Bind(p2e, path, idx) ==
  [q \in DOMAIN p2e \cup {path} |-> IF q = path THEN idx ELSE p2e[q]]

EmptyDict == [q \in {} |-> 0]

RECURSIVE Pass1(_, _, _, _)
\* The first loop over contents from item i on.
Pass1(items, i, graph, p2e) ==
  IF i > Len(items)
  THEN [graph |-> graph, p2e |-> p2e, err |-> "none"]
  ELSE LET r == NewEntity(items[i])
       IN  IF r.ok
           THEN Pass1(items, i + 1, Append(graph, r.val),
                      Bind(p2e, items[i].path, Len(graph) + 1))
           ELSE [graph |-> graph, p2e |-> p2e, err |-> r.err]

\* parent_path of an item: "." becomes "./"
ParentPath(item) ==
  LET parent_path == Relpath(item.root, DIRECTORY)
  IN  IF parent_path = CURDIR THEN ROOT_ID ELSE parent_path

AddPart_prepend(entity, id) ==
  LET parts == IF "hasPart" \in DOMAIN entity THEN entity["hasPart"] ELSE <<>>
  IN  Put(entity, "hasPart", <<Ref(id)>> \o parts)

\* parent_entity["hasPart"].append({"@id": id}), creating the list if missing
AddPart(entity, id) ==
  LET parts == IF "hasPart" \in DOMAIN entity THEN entity["hasPart"] ELSE <<>>
  IN  Put(entity, "hasPart", Append(parts, Ref(id)))

\* path_to_entity.get(parent_path, None) and the append to its hasPart
LinkParent(graph, p2e, item) ==
  LET parent_path == ParentPath(item)
  IN  IF parent_path \in DOMAIN p2e
      THEN [graph EXCEPT ![p2e[parent_path]] = AddPart(@, item.path)]
      ELSE graph

HasDescriptor_onDisk(p2e, resource_file) == os_path_exists(resource_file)

\* resource_file in path_to_entity
HasDescriptor(p2e, resource_file) == resource_file \in DOMAIN p2e

\* the isDescribedBy link of one item
LinkDescriptor(graph, p2e, item) ==
  LET resource_file == ResourceFileOf(item.path)
  IN  IF IsDataFile(item) /\ HasDescriptor(p2e, resource_file)
      THEN [graph EXCEPT ![p2e[item.path]] = Put(@, "isDescribedBy", Ref(resource_file))]
      ELSE graph

RECURSIVE Pass2(_, _, _, _)
\* The second loop over contents from item i on.
Pass2(items, i, graph, p2e) ==
  IF i > Len(items)
  THEN graph
  ELSE Pass2(items, i + 1,
             LinkDescriptor(LinkParent(graph, p2e, items[i]), p2e, items[i]), p2e)

\* ------------------------------------------------------------------ build
\* The tree a walk can see: the nodes below DIRECTORY and the bytes of the
\* output file when it lies there.
Snapshot ==
  [nodes |-> TreeNow, out |-> IF cwdIsDir THEN dest ELSE Absent, yaml |-> yamlDoc]

NoSnapshot == [nodes |-> {}, out |-> Absent, yaml |-> "desc"]
NoBuild == [valid |-> FALSE, graph |-> <<>>, snap |-> NoSnapshot]

\* A manifest that an earlier session left in the working directory.
EarlierDocument == ("@context" :> CONTEXT_URI) @@ ("@graph" :> <<RootEntity(0)>>)

Document_typed ==
  ("@context" :> CONTEXT_URI) @@ ("@graph" :> metadata) @@ ("@type" :> "Dataset")

\* The document json.dump writes.
Document == ("@context" :> CONTEXT_URI) @@ ("@graph" :> metadata)

\* ------------------------------------------------------- the notebook run
\* The files of output_data, by the names of the parameter cell.
OUTPUT_SHAPEFILE_PATH == "output_data/filtered_shapefile/filtered_data.shp"
ZIP_OUTPUT_PATH == "output_data/Future_Land_use__MTP2024_filtered.zip"
SHAPEFILE_RESOURCE_FILE_PATH == "output_data/Future_Land_use__MTP2024_filtered.resource.yaml"
TYPE_DESCIP_LUT_PATH == "output_data/Land_Use_Types_descriptions.csv"
TYPE_DESCIP_MIXU_PATH == "output_data/Mixed_Use_descriptions.csv"
TYPE_DESCIP_LUT_RESOURCE_PATH == "output_data/Land_Use_Types_descriptions.resource.yaml"
TYPE_DESCIP_MIXU_RESOURCE_PATH == "output_data/Mixed_Use_descriptions.resource.yaml"
FUTURE_LAND_USE_ATTRIB_OUTPUT_PATH == "output_data/Future_Land_use_attributes.csv"
ATTRIBUTES_RESOURCE_PATH == "output_data/Future_Land_use_attributes.resource.yaml"
OUTPUT_GEOPACKAGE_PATH == "output_data/Future_Land_use.gpkg"

ResourceFiles ==
  { ATTRIBUTES_RESOURCE_PATH, TYPE_DESCIP_LUT_RESOURCE_PATH,
    TYPE_DESCIP_MIXU_RESOURCE_PATH, SHAPEFILE_RESOURCE_FILE_PATH }

OutputFiles ==
  { OUTPUT_SHAPEFILE_PATH, ZIP_OUTPUT_PATH, TYPE_DESCIP_LUT_PATH, TYPE_DESCIP_MIXU_PATH,
    FUTURE_LAND_USE_ATTRIB_OUTPUT_PATH, OUTPUT_GEOPACKAGE_PATH } \cup ResourceFiles

\* The data file whose bytes and hash a resource cell records.
DataOf(resource) ==
  CASE resource = ATTRIBUTES_RESOURCE_PATH       -> FUTURE_LAND_USE_ATTRIB_OUTPUT_PATH
    [] resource = TYPE_DESCIP_LUT_RESOURCE_PATH  -> TYPE_DESCIP_LUT_PATH
    [] resource = TYPE_DESCIP_MIXU_RESOURCE_PATH -> TYPE_DESCIP_MIXU_PATH
    [] resource = SHAPEFILE_RESOURCE_FILE_PATH   -> ZIP_OUTPUT_PATH

\* The content of a file: none, one left by earlier work, or the one a cell
\* of run r wrote (empty: a table without rows).
Missing == [by |-> "none", run |-> 0, empty |-> FALSE]
Earlier == [by |-> "earlier", run |-> 0, empty |-> FALSE]
WrittenIn(r, e) == [by |-> "run", run |-> r, empty |-> e]

\* The notebook before it is opened.
NotebookClosed ==
  [ cell |-> "closed", run |-> 0, create_geopackage |-> TRUE,
    files |-> [f \in OutputFiles |-> Missing],
    hashed |-> [r \in ResourceFiles |-> Missing],
    manifest |-> [f \in OutputFiles |-> Missing] ]

\* omit_names of the call cell drops the directory filtered_shapefile.
UnderOmitted(f) == f = OUTPUT_SHAPEFILE_PATH

\* No call of the build has been made.
NoCall ==
  /\ pc = "idle"
  /\ omit_names = <<>>
  /\ metadata = <<>>
  /\ contents = <<>>
  /\ path_to_entity = EmptyDict
  /\ dest0 = Absent
  /\ err = "none"
  /\ now = 0
  /\ builds = 0
  /\ snap = NoSnapshot
  /\ prev = NoBuild

InitWith(dups) ==
  /\ nb = NotebookClosed
  /\ dupScan \in dups
  /\ dirKind \in DirKinds
  /\ tree \in (IF dirKind = "dir" THEN Trees ELSE {{}})
  /\ omit_arg \in OmitChoices
  /\ cwdIsDir \in (IF dirKind = "dir" THEN BOOLEAN ELSE {FALSE})
  /\ cwdFiles \in CwdFilesFor(tree, cwdIsDir)
  /\ yamlDoc \in (IF ~cwdIsDir /\ cwdFiles = {} THEN {"desc"} ELSE DocKindsFor(tree))
  /\ unreadable \in UnreadableChoices(tree)
  /\ dest \in (IF cwdIsDir /\ omit_arg = None /\ yamlDoc = "desc" /\ unreadable = {}
               THEN {Absent, Complete(EarlierDocument)}
               ELSE {Absent})
  /\ NoCall

\* The call: the default of omit_names, the metadata structure and the root
\* dataset with the time of the call.
Begin ==
  /\ pc \in {"idle", "done", "failed", "interrupted"}
  /\ builds < MaxBuilds
  /\ builds' = builds + 1
  /\ now' = now + 1
  /\ omit_names' = IF omit_arg.given THEN omit_arg.names ELSE <<>>
  /\ metadata' = <<RootEntity(now')>>
  /\ contents' = <<>>
  /\ path_to_entity' = EmptyDict
  /\ err' = "none"
  /\ snap' = Snapshot
  /\ prev' = IF pc = "done"
             THEN [valid |-> TRUE, graph |-> metadata, snap |-> snap]
             ELSE prev
  /\ pc' = "started"
  /\ dest0' = dest
  /\ UNCHANGED <<env, yamlDoc, dest>>

\* contents = list_directory_contents(directory)
ListContents ==
  /\ pc = "started"
  /\ contents' = list_directory_contents
  /\ pc' = "walked"
  /\ UNCHANGED <<env, yamlDoc, dest0, omit_names, metadata,
                 path_to_entity, dest, err, now, builds, snap, prev>>

\* The first loop: one entity per item, or the exception that ends the call
\* (the locals are gone with the call's frame).
CreateEntities ==
  /\ pc = "walked"
  /\ LET r == Pass1(contents, 1, metadata, EmptyDict)
     IN  IF r.err = "none"
         THEN /\ metadata' = r.graph
              /\ path_to_entity' = r.p2e
              /\ pc' = "created"
              /\ UNCHANGED <<contents, err>>
         ELSE /\ metadata' = <<>>
              /\ path_to_entity' = EmptyDict
              /\ contents' = <<>>
              /\ err' = r.err
              /\ pc' = "failed"
  /\ UNCHANGED <<env, yamlDoc, dest0, omit_names, dest, now,
                 builds, snap, prev>>

\* The second loop: hasPart and isDescribedBy.
LinkEntities ==
  /\ pc = "created"
  /\ metadata' = Pass2(contents, 1, metadata, path_to_entity)
  /\ pc' = "linked"
  /\ UNCHANGED <<env, yamlDoc, dest0, omit_names, contents,
                 path_to_entity, dest, err, now, builds, snap, prev>>

\* open('ro-crate-metadata.json', 'w'): the file is created or truncated.
OpenOutput ==
  /\ pc = "linked"
  /\ dest' = Truncated
  /\ pc' = "open"
  /\ UNCHANGED <<env, yamlDoc, dest0, omit_names, metadata,
                 contents, path_to_entity, err, now, builds, snap, prev>>

\* json.dump and the end of the with block: the document is on disk.
DumpOutput ==
  /\ pc = "open"
  /\ dest' = Complete(Document)
  /\ pc' = "done"
  /\ UNCHANGED <<env, yamlDoc, dest0, omit_names, metadata,
                 contents, path_to_entity, err, now, builds, snap, prev>>

\* The process is interrupted during the call (KeyboardInterrupt, kill).
Interrupt ==
  /\ pc \in {"started", "walked", "created", "linked", "open"}
  /\ pc' = "interrupted"
  /\ err' = "Interrupted"
  /\ metadata' = <<>>
  /\ contents' = <<>>
  /\ path_to_entity' = EmptyDict
  /\ UNCHANGED <<env, yamlDoc, dest0, omit_names, dest, now,
                 builds, snap, prev>>

\* Between two builds a descriptor is rewritten and no longer parses.
CorruptDescriptor ==
  /\ pc = "done"
  /\ builds < MaxBuilds
  /\ yamlDoc = "desc"
  /\ \E n \in tree : /\ Universe[n].type = "File"
                     /\ EndsWith(Universe[n].name, RESOURCE_SUFFIX)
  /\ yamlDoc' = "invalid"
  /\ UNCHANGED <<env, pc, omit_names, metadata, contents, path_to_entity, dest,
                 dest0, err, now, builds, snap, prev>>

Next ==
  \/ Begin
  \/ ListContents
  \/ CreateEntities
  \/ LinkEntities
  \/ OpenOutput
  \/ DumpOutput
  \/ Interrupt
  \/ CorruptDescriptor

\* Builds over listings that yield every name once.
Init == InitWith({FALSE})

Spec == Init /\ [][Next]_vars

\* Builds over listings of the root that yield a name twice.
InitDup == InitWith({TRUE})

SpecDup == InitDup /\ [][Next]_vars

\* ------------------------------------------------- the cells of the notebook
\* Everything but the notebook run.
build ==
  << tree, omit_arg, cwdIsDir, unreadable, dirKind, dupScan, cwdFiles, yamlDoc, pc,
     omit_names, metadata, contents, path_to_entity, dest, dest0, err, now, builds,
     snap, prev >>

\* The run moved on to the next cell, the files as the cell left them.
Advance(to, files) == [nb EXCEPT !.cell = to, !.files = files]

\* Run All: the parameter cell is run, create_geopackage as the user set it.
RunAll ==
  /\ nb.cell \in {"ready", "finished", "error"}
  /\ nb.run < MaxBuilds
  /\ \E g \in BOOLEAN :
       nb' = [nb EXCEPT !.cell = "shapefile", !.run = @ + 1, !.create_geopackage = g]
  /\ UNCHANGED build

\* filtered_gdf.to_file(OUTPUT_SHAPEFILE_PATH): no zip is written.
FilteredShapefileCell ==
  /\ nb.cell = "shapefile"
  /\ nb' = Advance("attributes",
                   [nb.files EXCEPT ![OUTPUT_SHAPEFILE_PATH] = WrittenIn(nb.run, FALSE)])
  /\ UNCHANGED build

\* attributes_df.to_csv(FUTURE_LAND_USE_ATTRIB_OUTPUT_PATH)
AttributeCsvCell ==
  /\ nb.cell = "attributes"
  /\ \E e \in BOOLEAN :
       nb' = Advance("lookups",
                     [nb.files EXCEPT
                        ![FUTURE_LAND_USE_ATTRIB_OUTPUT_PATH] = WrittenIn(nb.run, e)])
  /\ UNCHANGED build

\* land_use_df.to_csv(TYPE_DESCIP_LUT_PATH); mixed_use_df.to_csv(TYPE_DESCIP_MIXU_PATH)
LookupCsvCell ==
  /\ nb.cell = "lookups"
  /\ \E e1, e2 \in BOOLEAN :
       nb' = Advance("attributes_resource",
                     [nb.files EXCEPT ![TYPE_DESCIP_LUT_PATH] = WrittenIn(nb.run, e1),
                                      ![TYPE_DESCIP_MIXU_PATH] = WrittenIn(nb.run, e2)])
  /\ UNCHANGED build

\* A resource cell of a table: bytes and hash of the table as it is on disk,
\* written unless the table is missing or has no rows.
TableResource(to, resource) ==
  LET data == nb.files[DataOf(resource)]
  IN  IF data.by # "none" /\ ~data.empty
      THEN [nb EXCEPT !.cell = to,
                      !.files[resource] = WrittenIn(nb.run, FALSE),
                      !.hashed[resource] = data]
      ELSE [nb EXCEPT !.cell = to]

AttributesResourceCell ==
  /\ nb.cell = "attributes_resource"
  /\ nb' = TableResource("lut_resource", ATTRIBUTES_RESOURCE_PATH)
  /\ UNCHANGED build

LutResourceCell ==
  /\ nb.cell = "lut_resource"
  /\ nb' = TableResource("mixu_resource", TYPE_DESCIP_LUT_RESOURCE_PATH)
  /\ UNCHANGED build

MixuResourceCell ==
  /\ nb.cell = "mixu_resource"
  /\ nb' = TableResource("shapefile_resource", TYPE_DESCIP_MIXU_RESOURCE_PATH)
  /\ UNCHANGED build

\* The resource of the zipped shapefile: os.path.getsize(ZIP_OUTPUT_PATH) and
\* morpc.md5(ZIP_OUTPUT_PATH) with no guard; a missing zip ends the run.
ShapefileResourceCell ==
  /\ nb.cell = "shapefile_resource"
  /\ LET data == nb.files[ZIP_OUTPUT_PATH]
     IN  IF data.by = "none"
         THEN nb' = [nb EXCEPT !.cell = "error"]
         ELSE nb' = [nb EXCEPT !.cell = "rocrate",
                               !.files[SHAPEFILE_RESOURCE_FILE_PATH] = WrittenIn(nb.run, FALSE),
                               !.hashed[SHAPEFILE_RESOURCE_FILE_PATH] = data]
  /\ UNCHANGED build

\* create_and_write_ro_crate_metadata(current_directory, omit_names): the
\* manifest holds the checksum of every file that is there and not omitted.
RoCrateCell ==
  /\ nb.cell = "rocrate"
  /\ nb' = [nb EXCEPT !.cell = "geopackage",
                      !.manifest = [f \in OutputFiles |->
                                      IF UnderOmitted(f) THEN Missing ELSE nb.files[f]]]
  /\ UNCHANGED build

\* The GeoPackage export, then shutil.rmtree(OUTPUT_SHAPEFILE_DIR).
GeoPackageCell ==
  /\ nb.cell = "geopackage"
  /\ nb' = Advance("finished",
                   [nb.files EXCEPT
                      ![OUTPUT_GEOPACKAGE_PATH] =
                        IF nb.create_geopackage THEN WrittenIn(nb.run, FALSE) ELSE @,
                      ![OUTPUT_SHAPEFILE_PATH] = Missing])
  /\ UNCHANGED build

NextNotebook ==
  \/ RunAll
  \/ FilteredShapefileCell
  \/ AttributeCsvCell
  \/ LookupCsvCell
  \/ AttributesResourceCell
  \/ LutResourceCell
  \/ MixuResourceCell
  \/ ShapefileResourceCell
  \/ RoCrateCell
  \/ GeoPackageCell

\* The notebook opened in a directory where the zipped shapefile is missing or
\* was left by earlier work.
InitNotebook ==
  /\ \E z \in {Missing, Earlier} :
       nb = [NotebookClosed EXCEPT !.cell = "ready", !.files[ZIP_OUTPUT_PATH] = z]
  /\ dupScan = FALSE
  /\ dirKind = "dir"
  /\ tree = {}
  /\ omit_arg = None
  /\ cwdIsDir = TRUE
  /\ cwdFiles = {}
  /\ yamlDoc = "desc"
  /\ unreadable = {}
  /\ dest = Absent
  /\ NoCall

SpecNotebook == InitNotebook /\ [][NextNotebook]_vars

\* =================================================================== claims
\* The manifest of a completed build.
Built == pc = "done"
Graph == metadata
Entities == 1..Len(Graph)
IdOf(i) == Graph[i]["@id"]
Ids == {IdOf(i) : i \in Entities}
Has(e, key) == key \in DOMAIN e
PartsOf(e) == IF Has(e, "hasPart") THEN e["hasPart"] ELSE <<>>
PartIds(e) == {PartsOf(e)[k]["@id"] : k \in 1..Len(PartsOf(e))}
Occurrences(e, id) == Cardinality({k \in 1..Len(PartsOf(e)) : PartsOf(e)[k]["@id"] = id})

\* C1: in a built manifest every non-root entity is listed in the hasPart of
\* exactly one other entity, and exactly once there.
C1_ExactlyOneParent ==
  Built =>
    \A i \in Entities :
      IdOf(i) # ROOT_ID =>
        \E j \in Entities \ {i} :
          /\ Occurrences(Graph[j], IdOf(i)) = 1
          /\ \A k \in Entities \ {i, j} : Occurrences(Graph[k], IdOf(i)) = 0

RECURSIVE ReachFrom(_)
\* Ids reachable from a set of ids by following hasPart.
ReachFrom(S) ==
  LET T == S \cup UNION {PartIds(Graph[i]) : i \in {k \in Entities : IdOf(k) \in S}}
  IN  IF T = S THEN S ELSE ReachFrom(T)

\* C2: in a built manifest every entity is reachable from the root "./" by
\* following hasPart references.
C2_AllReachableFromRoot ==
  Built => Ids \subseteq ReachFrom({ROOT_ID})

\* The walked entries that lie directly in the walk root, in discovery order.
InRoot(item) == item.root = DIRECTORY
TopLevelRefs ==
  LET top == SelectSeq(contents, InRoot)
  IN  [k \in 1..Len(top) |-> Ref(top[k].path)]

\* C3: after a build the root entity's hasPart lists exactly the walked
\* entries lying directly in the walk root, in discovery order.
C3_RootHasPart ==
  Built => Graph[1]["hasPart"] = TopLevelRefs

\* C4: a File entity whose path does not end in ".resource.yaml" has
\* isDescribedBy, pointing at stem + ".resource.yaml", if and only if the same
\* walk produced an entry with exactly that relative path.
C4_DescribedByIffWalked ==
  Built =>
    \A i \in Entities :
      (Graph[i]["@type"] = "File" /\ ~EndsWith(IdOf(i), RESOURCE_SUFFIX)) =>
        LET want == SplitextRoot(IdOf(i)) \o RESOURCE_SUFFIX
            walked == \E k \in 1..Len(contents) : contents[k].path = want
        IN  /\ Has(Graph[i], "isDescribedBy") <=> walked
            /\ walked => Graph[i]["isDescribedBy"] = Ref(want)

\* A data file is linked to its walked descriptor.
C4_Witness ==
  /\ Built
  /\ \E i \in Entities :
       /\ IdOf(i) = N_a_csv
       /\ Has(Graph[i], "isDescribedBy")
       /\ Graph[i]["isDescribedBy"]["@id"] = N_a_resource

\* C5: contentChecksum (one MD5 entry) is present on an entity if and only if
\* it is a File, descriptor files included.
C5_ChecksumIffFile ==
  Built =>
    \A i \in Entities :
      /\ Has(Graph[i], "contentChecksum") <=> Graph[i]["@type"] = "File"
      /\ Has(Graph[i], "contentChecksum") =>
           /\ Len(Graph[i]["contentChecksum"]) = 1
           /\ Graph[i]["contentChecksum"][1].checksumAlgorithm = "MD5"

\* Names on the way from the walk root to a node, the node's own included.
RECURSIVE Components(_)
Components(n) ==
  IF n = 0 THEN {} ELSE {Universe[n].name} \cup Components(Universe[n].parent)

InOmitNames(name) == \E i \in 1..Len(omit_names) : omit_names[i] = name
Reserved(name) == EndsWith(name, GIT_SUFFIX) \/ EndsWith(name, CHECKPOINTS_SUFFIX)
PrefixOfOmitted(name) ==
  \E i \in 1..Len(omit_names) : StartsWith(name, omit_names[i]) /\ name # omit_names[i]

\* C6: an object whose basename equals an entry of omit_names has no entity,
\* at any depth, and nothing beneath it has one; an object whose name only
\* starts with an omitted name is included, and so is all that lies beneath
\* it, as far as no name on the way is itself excluded.
C6_ExactNameExclusion ==
  Built =>
    \A n \in snap.nodes :
      /\ (\E c \in Components(n) : InOmitNames(c)) => RelOf(n) \notin Ids
      /\ (/\ \E c \in Components(n) : PrefixOfOmitted(c)
          /\ \A c \in Components(n) : ~InOmitNames(c) /\ ~Reserved(c))
           => RelOf(n) \in Ids

\* tmp is omitted with what it holds, tmp2 is included with what it holds.
C6_Witness ==
  /\ Built
  /\ omit_names = <<N_tmp>>
  /\ \E n \in snap.nodes : Universe[n].name = N_tmp /\ Universe[n].type = "Directory"
  /\ \E n \in snap.nodes : Universe[n].parent # 0 /\ Universe[Universe[n].parent].name = N_tmp
  /\ N_tmp2 \in Ids
  /\ Join(N_tmp2, N_x_txt) \in Ids

\* C7: whatever omit_names is, an object whose basename ends with ".git" or
\* ".ipynb_checkpoints" has no entity and nothing beneath it has one; a root
\* holding only .git/config yields a manifest with the root entity alone.
C7_ReservedSuffixes ==
  Built =>
    /\ \A n \in snap.nodes :
         (\E c \in Components(n) : Reserved(c)) => RelOf(n) \notin Ids
    /\ (\A n \in snap.nodes : \E c \in Components(n) : Reserved(c)) => Len(Graph) = 1

\* omit_names is None and the root holds only .git/config.
C7_Witness ==
  /\ Built
  /\ ~omit_arg.given
  /\ {RelOf(n) : n \in snap.nodes} = {N_git, Join(N_git, N_config)}
  /\ Len(Graph) = 1

WithoutDate(e) == [k \in DOMAIN e \ {"dateCreated"} |-> e[k]]
SameExceptDate(g, h) ==
  /\ Len(g) = Len(h)
  /\ \A i \in 1..Len(g) : WithoutDate(g[i]) = WithoutDate(h[i])

C9_OneEntityPerEntry ==
  Built =>
    /\ Cardinality({i \in Entities : IdOf(i) = ROOT_ID}) = 1
    /\ \A i \in Entities : Graph[i]["@type"] = "Dataset" <=> IdOf(i) = ROOT_ID
    /\ Len(Graph) = Len(contents) + 1
    /\ \A k \in 1..Len(contents) :
         Cardinality({i \in Entities : IdOf(i) = contents[k].path}) = 1
    /\ \A i, j \in Entities : IdOf(i) = IdOf(j) => i = j

\* A manifest with entries of the same name in different directories.
C9_Witness ==
  /\ Built
  /\ Join(N_b, N_x_txt) \in Ids
  /\ Join(N_tmp2, N_x_txt) \in Ids

\* C10: at every point of a build the output file holds a complete document
\* or does not exist.
C10_OutputNeverPartial ==
  dest.state \in {"absent", "complete"}

\* Exceptions the descriptor read and the checksum can raise.
BuildErrors == {"YAMLError", "AttributeError", "IsADirectoryError", "IOError"}

\* The descriptor read or the checksum of an item fails.
FailsFor(item) ==
  /\ item.type = "File"
  /\ ~EndsWith(item.path, RESOURCE_SUFFIX)
  /\ \/ /\ os_path_exists(SplitextRoot(item.path) \o RESOURCE_SUFFIX)
        /\ DocAt(SplitextRoot(item.path) \o RESOURCE_SUFFIX) \in {"invalid", "null", "isdir"}
     \/ \E n \in unreadable : RelOf(n) = item.path

\* C11: when the checksum or the descriptor read fails for an entry, the build
\* does not go on past the first loop (the descriptors being as they were when
\* the build began): it ends with that error, and the output file is as it
\* was when the build began.
C11_FailureAbortsBuild ==
  /\ (pc \in {"created", "linked", "open", "done"} /\ snap.yaml = yamlDoc) =>
       \A k \in 1..Len(contents) : ~FailsFor(contents[k])
  /\ pc = "failed" => (err \in BuildErrors /\ dest = dest0)

\* A build fails on a corrupt descriptor and the manifest of the build before
\* it is still on disk, complete.
C11_Witness ==
  /\ pc = "failed"
  /\ err = "YAMLError"
  /\ dest0.state = "complete"
  /\ dest = dest0

\* C12: when the directory argument names no directory, the walk fails and no
\* manifest is written.
C12_MissingRootFails ==
  dirKind # "dir" =>
    /\ pc \notin {"walked", "created", "linked", "open", "done"}
    /\ dest.state = "absent"

\* C13: when two walked entries claim the same id, the build fails with a
\* structural error instead of going on with the later entity in place of the
\* earlier one in path_to_entity.
C13_DuplicateIdDetected ==
  (\E i, j \in 1..Len(contents) : i < j /\ contents[i].path = contents[j].path) =>
    pc \notin {"created", "linked", "open", "done"}

\* Whether the walk produced an entry with this relative path.
Walked(path) == \E k \in 1..Len(contents) : contents[k].path = path

\* The File entities that pass 1 treats as data files.
DataEntities ==
  {i \in Entities : Graph[i]["@type"] = "File" /\ ~EndsWith(IdOf(i), RESOURCE_SUFFIX)}

\* C14: a File entity whose descriptor path, stem + ".resource.yaml", is not
\* an entry of the walk has neither a description nor an isDescribedBy field,
\* whatever else exists on disk or in the working directory.
C14_NoDescriptorNoDescription ==
  Built =>
    \A i \in DataEntities :
      ~Walked(ResourceFileOf(IdOf(i))) =>
        /\ ~Has(Graph[i], "description")
        /\ ~Has(Graph[i], "isDescribedBy")

\* C15: a File entity whose descriptor is an entry of the walk has the
\* description of that descriptor and an isDescribedBy reference to it, for
\* any root directory, the working directory or not.
C15_DescriptorGivesDescription ==
  (Built /\ yamlDoc = "desc") =>
    \A i \in DataEntities :
      Walked(ResourceFileOf(IdOf(i))) =>
        /\ Has(Graph[i], "description")
        /\ Graph[i]["description"] = DESCRIPTION_TEXT
        /\ Has(Graph[i], "isDescribedBy")
        /\ Graph[i]["isDescribedBy"] = Ref(ResourceFileOf(IdOf(i)))

\* C16: when the descriptor parses but has no description key, or parses to
\* something that is no mapping, the build raises no descriptor error and the
\* described file's description is the empty string.
C16_ParseableDescriptorGivesEmpty ==
  yamlDoc \in {"nodesc", "null"} =>
    /\ pc = "failed" => err \in {"IOError", "IsADirectoryError"}
    /\ Built => \A i \in DataEntities :
                  os_path_exists(ResourceFileOf(IdOf(i))) =>
                    /\ Has(Graph[i], "description")
                    /\ Graph[i]["description"] = ""

\* The files a run leaves to be packaged; the shapefile directory is removed.
Packaged == OutputFiles \ {OUTPUT_SHAPEFILE_PATH}

WrittenThisRun(f) == nb.files[f].by = "run" /\ nb.files[f].run = nb.run

\* C17: when a notebook run has finished, every packaged output written in
\* that run is in the run's manifest with the checksum of its final content:
\* the manifest was built after every step that writes outputs.
C17_ManifestAfterCollaborators ==
  nb.cell = "finished" =>
    \A f \in Packaged : WrittenThisRun(f) => nb.manifest[f] = nb.files[f]

\* C18: the hash and bytes of a resource file written in a run are those of
\* its data file as this run last wrote it; no resource is written for a data
\* file the run did not produce.
C18_ResourceMatchesShippedFile ==
  \A r \in ResourceFiles :
    WrittenThisRun(r) =>
      /\ WrittenThisRun(DataOf(r))
      /\ nb.hashed[r] = nb.files[DataOf(r)]

\* The File entities that are descriptors.
DescriptorEntities ==
  {i \in Entities : Graph[i]["@type"] = "File" /\ EndsWith(IdOf(i), RESOURCE_SUFFIX)}

\* C19: a File entity whose path ends in ".resource.yaml" has neither a
\* description nor an isDescribedBy field, even when the walk holds a file
\* named stem + ".resource.yaml" for it.
C19_DescriptorsNotDescribed ==
  Built =>
    \A i \in DescriptorEntities :
      /\ ~Has(Graph[i], "description")
      /\ ~Has(Graph[i], "isDescribedBy")

\* A descriptor was built while the walk held a descriptor named after it.
C19_Witness ==
  /\ Built
  /\ cwdIsDir
  /\ \E i \in DescriptorEntities :
       /\ IdOf(i) = N_a_resource
       /\ Walked(ResourceFileOf(IdOf(i)))
       /\ ~Has(Graph[i], "description")
       /\ ~Has(Graph[i], "isDescribedBy")

\* The walked entries whose parent directory is the directory with this
\* relative path, as references in discovery order.
ChildRefs(dir) ==
  LET InDir(item) == item.root = Join(DIRECTORY, dir)
      children == SelectSeq(contents, InDir)
  IN  [k \in 1..Len(children) |-> Ref(children[k].path)]

DirectoryEntities == {i \in Entities : Graph[i]["@type"] = "Directory"}

\* C20: the hasPart of every non-root Directory entity lists exactly the
\* walked entries whose parent directory it is, in walk order; a directory
\* without walked children has no hasPart at all.
C20_DirectoryHasPart ==
  Built =>
    \A i \in DirectoryEntities :
      /\ PartsOf(Graph[i]) = ChildRefs(IdOf(i))
      /\ ChildRefs(IdOf(i)) = <<>> => ~Has(Graph[i], "hasPart")

\* One directory was built with two walked children, another with none.
C20_Witness ==
  /\ Built
  /\ \E i, j \in DirectoryEntities :
       /\ Len(PartsOf(Graph[i])) > 1
       /\ ~Has(Graph[j], "hasPart")

\* C21: the written document has exactly the two top-level fields @context,
\* the fixed context string, and @graph; @graph holds the root entity first
\* and then one entity per walked entry, in the order of the walk.
C21_DocumentLayout ==
  Built =>
    /\ dest.state = "complete"
    /\ DOMAIN dest.doc = {"@context", "@graph"}
    /\ dest.doc["@context"] = CONTEXT_URI
    /\ LET graph == dest.doc["@graph"]
       IN  /\ Len(graph) = Len(contents) + 1
           /\ graph[1]["@id"] = ROOT_ID
           /\ \A k \in 1..Len(contents) : graph[k + 1]["@id"] = contents[k].path

\* A document was written for a walk of several entries, in directories too.
C21_Witness ==
  /\ Built
  /\ dest.state = "complete"
  /\ Len(dest.doc["@graph"]) > 3
  /\ \E k \in 1..Len(contents) : contents[k].root # DIRECTORY

\* Whether the entry at k lies beneath the Directory entry at j.
Beneath(k, j) ==
  /\ contents[j].type = "Directory"
  /\ StartsWith(contents[k].path, contents[j].path \o <<SEP>>)

\* C22: the walk emits parents before children: in the entry list, and so in
\* @graph, every Directory entry comes before every entry located beneath it.
C22_ParentsBeforeChildren ==
  /\ \A j, k \in 1..Len(contents) : Beneath(k, j) => j < k
  /\ Built =>
       \A j, k \in 1..Len(contents) :
         Beneath(k, j) =>
           /\ Graph[j + 1]["@id"] = contents[j].path
           /\ Graph[k + 1]["@id"] = contents[k].path

\* A directory and an entry beneath it were walked and built.
C22_Witness ==
  /\ Built
  /\ \E j, k \in 1..Len(contents) : Beneath(k, j) /\ j < k

\* The positions of one call in the order of its statements, and the
\* positions at which no call is running.
StepOrder ==
  { <<"started", "walked">>, <<"walked", "created">>, <<"created", "linked">>,
    <<"linked", "open">>, <<"open", "done">> }
Ended == {"idle", "done", "failed", "interrupted"}

\* Whether some non-root entity of a graph carries a link of pass 2.
Linked(graph) ==
  \E i \in 1..Len(graph) :
    /\ graph[i]["@id"] # ROOT_ID
    /\ Has(graph[i], "hasPart") \/ Has(graph[i], "isDescribedBy")

\* C23: within one build the steps happen in order and once each: the tree is
\* walked once, entities are created only by pass 1 and all of them before
\* any hasPart or isDescribedBy link is set, and the output file is touched
\* only after both passes have completed.
C23_StepsInOrder ==
  [][ /\ pc' # pc =>
           \/ <<pc, pc'>> \in StepOrder
           \/ pc \in Ended /\ pc' = "started"
           \/ pc \notin Ended /\ pc' \in {"failed", "interrupted"}
      /\ contents' # contents => (pc = "started" /\ pc' = "walked") \/ contents' = <<>>
      /\ Len(metadata') > Len(metadata) => pc \in Ended \cup {"walked"}
      /\ (~Linked(metadata) /\ Linked(metadata')) =>
           /\ pc = "created"
           /\ Len(metadata) = Len(contents) + 1
           /\ metadata' = Pass2(contents, 1, metadata, path_to_entity)
      /\ dest' # dest =>
           /\ pc \in {"linked", "open"}
           /\ Len(metadata) = Len(contents) + 1
    ]_vars

\* A build went through every step and wrote a manifest with both kinds of
\* link.
C23_Witness ==
  /\ Built
  /\ dest.state = "complete"
  /\ \E i, j \in Entities :
       /\ IdOf(i) # ROOT_ID
       /\ Has(Graph[i], "hasPart")
       /\ Has(Graph[j], "isDescribedBy")
       /\ Has(Graph[j], "description")

\* C24: field presence follows entity type in every built manifest: only the
\* root carries dateCreated, the root always carries hasPart, File entities
\* never carry hasPart, and Directory entities never carry description,
\* contentChecksum or isDescribedBy.
C24_FieldsFollowType ==
  Built =>
    \A i \in Entities :
      /\ Has(Graph[i], "dateCreated") <=> IdOf(i) = ROOT_ID
      /\ IdOf(i) = ROOT_ID => Has(Graph[i], "hasPart")
      /\ Graph[i]["@type"] = "File" => ~Has(Graph[i], "hasPart")
      /\ Graph[i]["@type"] = "Directory" =>
           /\ ~Has(Graph[i], "description")
           /\ ~Has(Graph[i], "contentChecksum")
           /\ ~Has(Graph[i], "isDescribedBy")

\* A manifest was built with the root, a directory with parts and a described
\* file.
C24_Witness ==
  /\ Built
  /\ \E i, j \in Entities :
       /\ Graph[i]["@type"] = "Directory"
       /\ Has(Graph[i], "hasPart")
       /\ Graph[j]["@type"] = "File"
       /\ Has(Graph[j], "contentChecksum")
       /\ Has(Graph[j], "description")

\* C25: a build changes nothing on the filesystem but ro-crate-metadata.json
\* in the working directory: the entries below the walked directory and their
\* bytes stay as they were when the build began, a walked directory that is
\* not the working directory gains no file, and until the write step, or
\* after a failure before it, the output file too is as it was.
C25_OnlyOutputChanges ==
  pc # "idle" =>
    /\ TreeNow \ {OutNode} = snap.nodes \ {OutNode}
    /\ ~cwdIsDir => TreeNow = snap.nodes
    /\ pc # "done" => yamlDoc = snap.yaml
    /\ pc \in {"started", "walked", "created", "linked", "failed"} => dest = dest0

\* A build that walked a directory other than the working directory wrote
\* its output where none was before.
C25_Witness ==
  /\ Built
  /\ ~cwdIsDir
  /\ dest.state = "complete"
  /\ dest0.state = "absent"
  /\ snap.nodes # {}

\* The ids referenced from the hasPart lists and isDescribedBy fields of a
\* graph.
ReferencedIds ==
  UNION {PartIds(Graph[i]) : i \in Entities}
    \cup {Graph[i]["isDescribedBy"]["@id"] : i \in {k \in Entities : Has(Graph[k], "isDescribedBy")}}

\* C26: no built manifest has a dangling reference: every @id in a hasPart
\* list or in an isDescribedBy field is the @id of an entity of the same
\* @graph.
C26_NoDanglingReference ==
  Built => ReferencedIds \subseteq Ids

\* A manifest was built that holds both kinds of reference.
C26_Witness ==
  /\ Built
  /\ \E i, j \in Entities :
       /\ PartIds(Graph[i]) # {}
       /\ Has(Graph[j], "isDescribedBy")
       /\ Graph[j]["isDescribedBy"]["@id"] \in Ids

\* The directory part of a relative path, "" for an entry of the root.
Dirname(p) == SubSeq(p, 1, Max({0, RFind(p, SEP) - 1}))

\* C27: whenever isDescribedBy is set on a File entity, its target is an
\* entity of type File whose @id ends in ".resource.yaml" and which lies in
\* the directory of the described file; a Directory with such a name is
\* never used as a descriptor.
C27_DescriptorIsFile ==
  Built =>
    \A i \in Entities :
      Has(Graph[i], "isDescribedBy") =>
        \E j \in Entities :
          /\ IdOf(j) = Graph[i]["isDescribedBy"]["@id"]
          /\ Graph[j]["@type"] = "File"
          /\ EndsWith(IdOf(j), RESOURCE_SUFFIX)
          /\ Dirname(IdOf(j)) = Dirname(IdOf(i))

\* The entity ids of the manifest of the build completed before this one.
PrevIds == {prev.graph[i]["@id"] : i \in 1..Len(prev.graph)}

\* C28: when the walked directory is the working directory, a manifest lists
\* ro-crate-metadata.json only if the file was there before the build began,
\* with the checksum of the content it had then and never of the document
\* being written; from the second consecutive build on the entity ids are
\* stable.
C28_OutputListedFromOldContent ==
  (Built /\ cwdIsDir) =>
    /\ OUTPUT_NAME \in Ids <=> snap.out.state # "absent"
    /\ \A i \in Entities :
         IdOf(i) = OUTPUT_NAME =>
           /\ Graph[i]["contentChecksum"][1].checksumValue = <<"md5", <<"json", snap.out>>>>
           /\ snap.out # dest
    /\ (prev.valid /\ prev.snap.out.state # "absent") => Ids = PrevIds

\* Two consecutive builds completed in the working directory, both with the
\* manifest file already there, the second recording the first's document.
C28_Witness ==
  /\ Built
  /\ cwdIsDir
  /\ prev.valid
  /\ prev.snap.out.state = "complete"
  /\ snap.out.state = "complete"
  /\ snap.out.doc["@graph"] = prev.graph
  /\ OUTPUT_NAME \in Ids
  /\ Cardinality(Ids) > 3

\* Whether the parent directory of the entry at k was walked as a Directory
\* entry.
ParentWalked(k) ==
  \E j \in 1..Len(contents) :
    /\ contents[j].type = "Directory"
    /\ Join(DIRECTORY, contents[j].path) = contents[k].root

\* C29: pruning never orphans an entry: the parent directory of every walked
\* entry is the walk root or a walked Directory entry, so the parent lookup
\* of pass 2 in path_to_entity finds an entity for every entry that is not
\* directly under the root.
C29_NoOrphans ==
  \A k \in 1..Len(contents) :
    contents[k].root # DIRECTORY =>
      /\ ParentWalked(k)
      /\ pc \in {"created", "linked", "open", "done"} =>
           /\ ParentPath(contents[k]) \in DOMAIN path_to_entity
           /\ metadata[path_to_entity[ParentPath(contents[k])]]["@type"] = "Directory"

\* A build walked into a sub-directory of a tree in which another directory
\* with an entry in it was pruned.
C29_Witness ==
  /\ Built
  /\ \E k \in 1..Len(contents) : contents[k].root # DIRECTORY
  /\ \E n, m \in snap.nodes :
       /\ Universe[m].parent = n
       /\ \A k \in 1..Len(contents) : contents[k].path # RelOf(n)

====
